---- MODULE Spec2Model ----
(***************************************************************************)
(* A model of the TikTok user scraper: the field normalizers and the       *)
(* extraction chain of extractors/tiktok_parser.py, the retrying fetcher   *)
(* of extractors/utils_network.py and the worker-pool orchestrator         *)
(* scrape_users of runner.py.                                              *)
(*                                                                         *)
(* Python values are tagged records.  A Python str is a sequence of        *)
(* one-character strings, so that strip, split, the regular expressions    *)
(* and the digit filter of _safe_int are computed character by character.  *)
(* Dictionary keys are atoms (only ever compared for equality); a dict is  *)
(* the sequence of its <<key, value>> pairs in insertion order.  An        *)
(* exception raised by a Python expression is the value Exc(name).         *)
(***************************************************************************)
EXTENDS Integers, Sequences, FiniteSets, TLC

----------------------------------------------------------------------------
(* Python values *)

PyNone == [t |-> "None"]
PyBool(b) == [t |-> "bool", b |-> b]
PyInt(n) == [t |-> "int", i |-> n]
\* a finite float n/10, or a non-finite one (inf, nan) when fin is FALSE
PyFloat(n, fin) == [t |-> "float", tenths |-> n, fin |-> fin]
PyStr(s) == [t |-> "str", s |-> s]
PyList(l) == [t |-> "list", l |-> l]
PyDict(d) == [t |-> "dict", d |-> d]
Exc(e) == [t |-> "exc", e |-> e]

EmptyStr == PyStr(<<>>)
EmptyDict == PyDict(<<>>)

IsExc(v) == v.t = "exc"
IsDict(v) == v.t = "dict"
IsStr(v) == v.t = "str"

\* Python truth value of a value (bool(v), `not v`, the operands of `or`)
Truthy(v) ==
  CASE v.t = "None" -> FALSE
    [] v.t = "bool" -> v.b
    [] v.t = "int" -> v.i # 0
    [] v.t = "float" -> (~v.fin) \/ v.tenths # 0
    [] v.t = "str" -> v.s # <<>>
    [] v.t = "list" -> v.l # <<>>
    [] v.t = "dict" -> v.d # <<>>
    [] v.t = "user" -> TRUE
    [] v.t = "html" -> v.text

\* a or b
Or(a, b) == IF Truthy(a) THEN a ELSE b

\* key in d
HasKey(d, k) == \E j \in 1..Len(d.d) : d.d[j][1] = k

\* d.get(k, default)
Get(d, k, default) ==
  IF HasKey(d, k)
  THEN d.d[CHOOSE j \in 1..Len(d.d) : d.d[j][1] = k][2]
  ELSE default

\* d.setdefault(k, v), as the dict it leaves behind
SetDefault(d, k, v) == IF HasKey(d, k) THEN d ELSE PyDict(Append(d.d, <<k, v>>))

\* next(iter(d)) of a non-empty dict
FirstKey(d) == d.d[1][1]

----------------------------------------------------------------------------
(* Character helpers *)

Digits == {"0", "1", "2", "3", "4", "5", "6", "7", "8", "9"}
Letters == {"a", "b", "c", "d", "e", "f", "g", "h", "i", "j", "k", "l", "m",
            "n", "o", "p", "q", "r", "s", "t", "u", "v", "w", "x", "y", "z",
            "A", "B", "C", "D", "E", "F", "G", "H", "I", "J", "K", "L", "M",
            "N", "O", "P", "Q", "R", "S", "T", "U", "V", "W", "X", "Y", "Z"}
Spaces == {" "}

DigitVal(c) ==
  CASE c = "0" -> 0 [] c = "1" -> 1 [] c = "2" -> 2 [] c = "3" -> 3
    [] c = "4" -> 4 [] c = "5" -> 5 [] c = "6" -> 6 [] c = "7" -> 7
    [] c = "8" -> 8 [] c = "9" -> 9

\* the value of a non-empty sequence of decimal digits: int(cleaned)
RECURSIVE DecVal(_)
DecVal(s) ==
  IF s = <<>> THEN 0
  ELSE 10 * DecVal(SubSeq(s, 1, Len(s) - 1)) + DigitVal(s[Len(s)])

\* s.strip()
RECURSIVE LStrip(_)
LStrip(s) == IF s # <<>> /\ s[1] \in Spaces THEN LStrip(Tail(s)) ELSE s
RECURSIVE RStrip(_)
RStrip(s) ==
  IF s # <<>> /\ s[Len(s)] \in Spaces THEN RStrip(SubSeq(s, 1, Len(s) - 1)) ELSE s
Strip(s) == RStrip(LStrip(s))

\* s.split(c, 1)[0]: the text before the first c, all of s when there is none
BeforeFirst(s, c) ==
  IF \E p \in 1..Len(s) : s[p] = c
  THEN SubSeq(s, 1, (CHOOSE p \in 1..Len(s) :
                        s[p] = c /\ \A q \in 1..(p - 1) : s[q] # c) - 1)
  ELSE s

\* whether pat occurs in s at position p
MatchAt(s, p, pat) ==
  /\ p + Len(pat) - 1 <= Len(s)
  /\ \A j \in 1..Len(pat) : s[p + j - 1] = pat[j]

\* s.replace(pat, ""), for a non-empty pat, leftmost occurrences first
RECURSIVE Remove(_, _)
Remove(s, pat) ==
  IF s = <<>> THEN <<>>
  ELSE IF MatchAt(s, 1, pat) THEN Remove(SubSeq(s, Len(pat) + 1, Len(s)), pat)
  ELSE <<s[1]>> \o Remove(Tail(s), pat)

----------------------------------------------------------------------------
(* Field normalizers *)

\* _extract_username_from_url: re.search(r"/@([^/]+)/?") on the stripped URL
\* with query string and fragment cut off
HandleStarts(u) ==
  {p \in 1..Len(u) : MatchAt(u, p, <<"/", "@">>) /\ p + 2 <= Len(u) /\ u[p + 2] # "/"}

_extract_username_from_url(url) ==
  LET stripped == Strip(url)
      u == BeforeFirst(BeforeFirst(stripped, "?"), "#")
  IN IF stripped = <<>> THEN <<>>
     ELSE IF HandleStarts(u) = {} THEN <<>>
     ELSE LET p == CHOOSE x \in HandleStarts(u) : \A y \in HandleStarts(u) : x <= y
          IN BeforeFirst(SubSeq(u, p + 2, Len(u)), "/")

\* EMAIL_RE.search(bio): [A-Za-z0-9._%+-]+@[A-Za-z0-9.-]+\.[A-Za-z]{2,}
EmailLocal == Letters \cup Digits \cup {".", "_", "%", "+", "-"}
EmailDomain == Letters \cup Digits \cup {".", "-"}

EMAIL_RE_search(s) ==
  \E a \in 2..Len(s) :
    /\ s[a] = "@"
    /\ s[a - 1] \in EmailLocal
    /\ \E dot \in (a + 2)..(Len(s) - 2) :
         /\ s[dot] = "."
         /\ \A j \in (a + 1)..(dot - 1) : s[j] \in EmailDomain
         /\ s[dot + 1] \in Letters
         /\ s[dot + 2] \in Letters

\* PHONE_RE.search(bio): \+?\d[\d\s\-]{7,}\d
PhoneInner == Digits \cup Spaces \cup {"-"}
PhoneMinInner == 7

PHONE_RE_search(s) ==
  \E a \in 1..Len(s) : \E b \in (a + PhoneMinInner + 1)..Len(s) :
    /\ s[a] \in Digits
    /\ s[b] \in Digits
    /\ \A j \in (a + 1)..(b - 1) : s[j] \in PhoneInner

\* _detect_contacts(bio): the pair (has_email, has_phone), or the TypeError
\* that re's search raises on a truthy value that is not a str
Pair(a, b) == [t |-> "tuple", a |-> a, b |-> b]

_detect_contacts(bio) ==
  IF ~Truthy(bio) THEN Pair(FALSE, FALSE)
  ELSE IF ~IsStr(bio) THEN Exc("TypeError")
  ELSE Pair(EMAIL_RE_search(bio.s), PHONE_RE_search(bio.s))

\* re.sub(r"[^\d]", "", value)
OnlyDigits(s) == SelectSeq(s, LAMBDA c : c \in Digits)

\* int(value) of a float: truncation toward zero
Trunc(tenths) == IF tenths >= 0 THEN tenths \div 10 ELSE -((-tenths) \div 10)

\* _safe_int(value, default)
_safe_int(value, default) ==
  CASE value.t = "None" -> default
    [] value.t = "bool" -> IF value.b THEN 1 ELSE 0
    [] value.t = "int" -> value.i
    [] value.t = "float" -> IF value.fin THEN Trunc(value.tenths) ELSE default
    [] value.t = "str" ->
         IF OnlyDigits(value.s) # <<>> THEN DecVal(OnlyDigits(value.s)) ELSE default
    [] OTHER -> default

\* _deep_get(data, path, default)
RECURSIVE _deep_get(_, _, _)
_deep_get(data, path, default) ==
  IF path = <<>> THEN data
  ELSE IF ~IsDict(data) \/ ~HasKey(data, path[1]) THEN default
  ELSE _deep_get(Get(data, path[1], default), Tail(path), default)

----------------------------------------------------------------------------
(* str() and dict() of the values the embedded state can hold *)

\* the decimal digits of a natural number
RECURSIVE NatStr(_)
NatStr(n) ==
  LET d == <<"0", "1", "2", "3", "4", "5", "6", "7", "8", "9">>[(n % 10) + 1]
  IN IF n < 10 THEN <<d>> ELSE NatStr(n \div 10) \o <<d>>

IntStr(n) == IF n < 0 THEN <<"-">> \o NatStr(-n) ELSE NatStr(n)

\* str(v).  A non-finite float is inf.  The repr of a non-empty list or dict
\* is not modelled: no id value of the model is one.
str(v) ==
  CASE v.t = "str" -> v
    [] v.t = "None" -> PyStr(<<"N", "o", "n", "e">>)
    [] v.t = "bool" ->
         IF v.b THEN PyStr(<<"T", "r", "u", "e">>) ELSE PyStr(<<"F", "a", "l", "s", "e">>)
    [] v.t = "int" -> PyStr(IntStr(v.i))
    [] v.t = "float" /\ ~v.fin -> PyStr(<<"i", "n", "f">>)
    [] v.t = "float" /\ v.fin /\ v.tenths >= 0 ->
         PyStr(NatStr(v.tenths \div 10) \o <<".">> \o NatStr(v.tenths % 10))
    [] v.t = "float" /\ v.fin /\ v.tenths < 0 ->
         PyStr(<<"-">> \o NatStr((-v.tenths) \div 10) \o <<".">> \o NatStr((-v.tenths) % 10))
    [] v.t = "list" /\ v.l = <<>> -> PyStr(<<"[", "]">>)
    [] v.t = "dict" /\ v.d = <<>> -> PyStr(<<"{", "}">>)

IsScalar(v) == v.t \in {"None", "bool", "int", "float"}

\* dict(v): a copy of a dict, the empty dict of an empty str or list, and an
\* error for a scalar (not iterable), a non-empty str (its items are one
\* character long, not pairs) and a list of scalars (its items are no
\* sequences).  A list of two-item sequences, which dict() accepts, is not
\* modelled: no list of the model holds one.
dict(v) ==
  CASE v.t = "dict" -> v
    [] v.t = "str" -> IF v.s = <<>> THEN EmptyDict ELSE Exc("ValueError")
    [] v.t = "list" /\ v.l = <<>> -> EmptyDict
    [] v.t = "list" /\ v.l # <<>> /\ (\A j \in 1..Len(v.l) : IsScalar(v.l[j])) ->
         Exc("TypeError")
    [] IsScalar(v) -> Exc("TypeError")

----------------------------------------------------------------------------
(* Documents *)

\* The SIGI_STATE script node of a document, as BeautifulSoup and json.loads
\* see it: no node (or a node without text), a text json.loads rejects, or
\* the decoded JSON value.
SigiAbsent == [k |-> "absent"]
SigiUndecodable == [k |-> "undecodable"]
SigiJson(v) == [k |-> "json", v |-> v]

\* A non-empty document: its SIGI_STATE node and the content of its og:title,
\* og:description and og:image meta tags (<<>> when the tag is missing or
\* its content is empty).
Html(sigi, title, description, image) ==
  [t |-> "html", text |-> TRUE, sigi |-> sigi,
   title |-> title, description |-> description, image |-> image]

\* The empty string fetch_html returns when every attempt failed
EmptyHtml == [t |-> "html", text |-> FALSE]

----------------------------------------------------------------------------
(* tiktok_parser.py: the record and the three strategies *)

TikTokUser(id, url, username, nickname, bio, followers, following, likes, videos, verified, avatar, region, language, hasEmail, hasPhone, coverImage) ==
  [t |-> "user", id |-> id, url |-> url, username |-> username,
   nickname |-> nickname, bio |-> bio, followers |-> followers,
   following |-> following, likes |-> likes, videos |-> videos,
   verified |-> verified, avatar |-> avatar, region |-> region,
   language |-> language, hasEmail |-> hasEmail, hasPhone |-> hasPhone,
   coverImage |-> coverImage, extra |-> EmptyDict]

FieldNames ==
  {"id", "url", "username", "nickname", "bio", "followers", "following",
   "likes", "videos", "verified", "avatar", "region", "language", "hasEmail",
   "hasPhone", "coverImage"}

\* TikTokUser.to_dict: the fields, with the entries of extra merged over them
to_dict(user) ==
  LET keys == {user.extra.d[j][1] : j \in 1..Len(user.extra.d)}
  IN [k \in FieldNames \cup keys |->
        IF k \in keys THEN Get(user.extra, k, PyNone) ELSE user[k]]

\* MUTANT of MinimalUser: the record keeps the stripped URL that
\* _extract_username_from_url works on instead of the URL it was given
MinimalUserStripped(url) ==
  TikTokUser(EmptyStr, PyStr(Strip(url.s)), PyStr(_extract_username_from_url(url.s)),
             EmptyStr, EmptyStr, PyInt(0), PyInt(0), PyInt(0), PyInt(0),
             PyBool(FALSE), EmptyStr, EmptyStr, EmptyStr, PyBool(FALSE),
             PyBool(FALSE), EmptyStr)

\* TikTokUser(id="", url=url, username=username): the Minimal record
MinimalUser(url) ==
  TikTokUser(EmptyStr, url, PyStr(_extract_username_from_url(url.s)), EmptyStr,
             EmptyStr, PyInt(0), PyInt(0), PyInt(0), PyInt(0), PyBool(FALSE),
             EmptyStr, EmptyStr, EmptyStr, PyBool(FALSE), PyBool(FALSE), EmptyStr)

_parse_from_sigi_state(html) ==
  IF html.sigi.k = "json" THEN html.sigi.v ELSE EmptyDict

_select_primary_user(data) ==
  LET users == _deep_get(data, <<"UserModule", "users">>, EmptyDict)
      first_key == FirstKey(users)
      user == Get(users, first_key, EmptyDict)
      stats == _deep_get(data, <<"UserModule", "stats", first_key>>, EmptyDict)
      merged == dict(user)
      user_info == _deep_get(data, <<"UserPage", "userInfo">>, EmptyDict)
  IN IF IsDict(users) /\ Truthy(users)
     THEN IF IsExc(merged) THEN merged
          ELSE IF IsDict(stats) THEN SetDefault(merged, "stats", stats)
          ELSE merged
     ELSE IF IsDict(user_info) THEN user_info
     ELSE EmptyDict

\* the avatar expression of _parse_user_from_structured_json
avatar_of(user_info) ==
  Or(Get(user_info, "avatarLarger", PyNone),
     Or(Get(user_info, "avatarThumb", PyNone),
        Or(Get(user_info, "avatarMedium", PyNone), EmptyStr)))

\* MUTANT of followers_arg: "fans" is tried before "followerCount"
followers_arg_fans_first(stats) ==
  Or(Get(stats, "fans", PyNone),
     Or(Get(stats, "followerCount", PyNone),
        Or(Get(stats, "followers", PyNone), Get(stats, "follower", PyNone))))

\* the arguments of the four _safe_int calls
followers_arg(stats) ==
  Or(Get(stats, "followerCount", PyNone),
     Or(Get(stats, "fans", PyNone),
        Or(Get(stats, "followers", PyNone), Get(stats, "follower", PyNone))))

following_arg(stats) ==
  Or(Get(stats, "followingCount", PyNone),
     Or(Get(stats, "following", PyNone), Get(stats, "followings", PyNone)))

likes_arg(stats) ==
  Or(Get(stats, "heartCount", PyNone),
     Or(Get(stats, "heart", PyNone),
        Or(Get(stats, "totalFavorited", PyNone), Get(stats, "likes", PyNone))))

videos_arg(stats) ==
  Or(Get(stats, "videoCount", PyNone),
     Or(Get(stats, "videos", PyNone), Get(stats, "video", PyNone)))

\* user_info and stats of the two layouts (lines 148-153)
user_info_of(user_data) ==
  IF HasKey(user_data, "user") /\ HasKey(user_data, "stats")
  THEN Or(Get(user_data, "user", EmptyDict), EmptyDict)
  ELSE user_data

stats_of(user_data) == Or(Get(user_data, "stats", EmptyDict), EmptyDict)

_parse_user_from_structured_json(url, html) ==
  LET sigi_state == _parse_from_sigi_state(html)
      user_data == _select_primary_user(sigi_state)
      user_info == user_info_of(user_data)
      stats == stats_of(user_data)
      bio == Get(user_info, "signature", EmptyStr)
      contacts == _detect_contacts(bio)
  IN IF ~Truthy(sigi_state) THEN PyNone
     ELSE IF IsExc(user_data) THEN user_data
     ELSE IF ~Truthy(user_data) THEN PyNone
     \* user_info.get on a value that is no dict
     ELSE IF ~IsDict(user_info) THEN Exc("AttributeError")
     \* stats.get on a value that is no dict
     ELSE IF ~IsDict(stats) THEN Exc("AttributeError")
     ELSE IF IsExc(contacts) THEN contacts
     ELSE TikTokUser(
            str(Or(Get(user_info, "id", PyNone),
                   Or(Get(user_info, "uid", PyNone),
                      _deep_get(sigi_state, <<"UserPage", "uniqueId">>, EmptyStr)))),
            url,
            Or(Get(user_info, "uniqueId", PyNone),
               PyStr(_extract_username_from_url(url.s))),
            Get(user_info, "nickname", EmptyStr),
            bio,
            PyInt(_safe_int(followers_arg(stats), 0)),
            PyInt(_safe_int(following_arg(stats), 0)),
            PyInt(_safe_int(likes_arg(stats), 0)),
            PyInt(_safe_int(videos_arg(stats), 0)),
            PyBool(Truthy(Or(Get(user_info, "verified", PyNone),
                             Get(user_info, "badgeVerification", PyNone)))),
            avatar_of(user_info),
            Or(Get(user_info, "region", EmptyStr), Get(user_info, "country", EmptyStr)),
            Get(user_info, "language", EmptyStr),
            PyBool(contacts.a),
            PyBool(contacts.b),
            Get(user_info, "coverImage", EmptyStr))

\* re.match(r"(.+?)\s+\(@(.+?)\)", title): the ends i of group 1 for which the
\* rest matches (white space up to "(@", one character or more, then ")")
AfterSpaces(s, i) ==
  CHOOSE p \in (i + 1)..(Len(s) + 1) :
    /\ \A j \in (i + 1)..(p - 1) : s[j] \in Spaces
    /\ p <= Len(s) => s[p] \notin Spaces

TitleEnds(s) ==
  {i \in 1..Len(s) :
     /\ i + 1 <= Len(s) /\ s[i + 1] \in Spaces
     /\ MatchAt(s, AfterSpaces(s, i), <<"(", "@">>)
     /\ \E q \in (AfterSpaces(s, i) + 3)..Len(s) : s[q] = ")"}

\* MUTANT of _parse_from_open_graph: no record when the document has none of
\* the three og: tags
_parse_from_open_graph_none_without_tags(url, html) ==
  LET title == html.title
      from_url == _extract_username_from_url(url.s)
      matched == TitleEnds(title) # {}
      i == CHOOSE x \in TitleEnds(title) : \A y \in TitleEnds(title) : x <= y
      p == AfterSpaces(title, i)
      group2 == BeforeFirst(SubSeq(title, p + 3, Len(title)), ")")
      handle == Strip(<<title[p + 2]>> \o group2)
      nickname ==
        IF title = <<>> THEN <<>>
        ELSE IF matched THEN Strip(SubSeq(title, 1, i))
        ELSE Strip(Remove(title, <<"|", " ", "T", "i", "k", "T", "o", "k">>))
      username ==
        IF title # <<>> /\ matched /\ from_url = <<>> THEN handle ELSE from_url
      bio == PyStr(html.description)
      contacts == _detect_contacts(bio)
  IN IF html.title = <<>> /\ html.description = <<>> /\ html.image = <<>>
     THEN PyNone
     ELSE TikTokUser(EmptyStr, url, PyStr(username), PyStr(nickname), bio,
                     PyInt(0), PyInt(0), PyInt(0), PyInt(0), PyBool(FALSE),
                     PyStr(html.image), EmptyStr, EmptyStr,
                     PyBool(contacts.a), PyBool(contacts.b), EmptyStr)

_parse_from_open_graph(url, html) ==
  LET title == html.title
      from_url == _extract_username_from_url(url.s)
      matched == TitleEnds(title) # {}
      i == CHOOSE x \in TitleEnds(title) : \A y \in TitleEnds(title) : x <= y
      p == AfterSpaces(title, i)
      group2 == BeforeFirst(SubSeq(title, p + 3, Len(title)), ")")
      handle == Strip(<<title[p + 2]>> \o group2)
      nickname ==
        IF title = <<>> THEN <<>>
        ELSE IF matched THEN Strip(SubSeq(title, 1, i))
        ELSE Strip(Remove(title, <<"|", " ", "T", "i", "k", "T", "o", "k">>))
      username ==
        IF title # <<>> /\ matched /\ from_url = <<>> THEN handle ELSE from_url
      bio == PyStr(html.description)
      contacts == _detect_contacts(bio)
  IN TikTokUser(EmptyStr, url, PyStr(username), PyStr(nickname), bio,
                PyInt(0), PyInt(0), PyInt(0), PyInt(0), PyBool(FALSE),
                PyStr(html.image), EmptyStr, EmptyStr,
                PyBool(contacts.a), PyBool(contacts.b), EmptyStr)

\* MUTANT of parse_user_from_url: no record at all when the fetch failed
parse_user_from_url_none_on_empty(url, html) ==
  LET structured_user == _parse_user_from_structured_json(url, html)
      og_user == _parse_from_open_graph(url, html)
  IN IF ~Truthy(html) THEN PyNone
     ELSE IF IsExc(structured_user) THEN structured_user
     ELSE IF Truthy(structured_user) THEN structured_user
     ELSE IF Truthy(og_user) THEN og_user
     ELSE MinimalUser(url)

\* parse_user_from_url after the fetch (lines 284-307): the record, or the
\* exception the extraction raises
parse_user_from_url(url, html) ==
  LET structured_user == _parse_user_from_structured_json(url, html)
      og_user == _parse_from_open_graph(url, html)
  IN IF ~Truthy(html) THEN MinimalUser(url)
     ELSE IF IsExc(structured_user) THEN structured_user
     ELSE IF Truthy(structured_user) THEN structured_user
     ELSE IF Truthy(og_user) THEN og_user
     ELSE MinimalUser(url)

\* the return statement of parse_user_from_url (lines 284-307) that ends the
\* call: line 288, 297, 302 or 307, or the exception that leaves line 295
return_site(url, html) ==
  LET structured_user == _parse_user_from_structured_json(url, html)
      og_user == _parse_from_open_graph(url, html)
  IN IF ~Truthy(html) THEN "minimal_no_html"
     ELSE IF IsExc(structured_user) THEN "raised"
     ELSE IF Truthy(structured_user) THEN "structured"
     ELSE IF Truthy(og_user) THEN "open_graph"
     ELSE "minimal_fallback"

----------------------------------------------------------------------------
(* Bounds and the inputs of the model *)

Min(a, b) == IF a <= b THEN a ELSE b

MaxUrls == 2
MaxWorkers == 2
MaxRetries == 2
MaxFetchRetries == 6
MaxCount == 2

\* "t.co/@jane"
UrlJane == <<"t", ".", "c", "o", "/", "@", "j", "a", "n", "e">>
\* " t.co/@bob/video/7?lang=en#top "
UrlBobVideo ==
  <<" ", "t", ".", "c", "o", "/", "@", "b", "o", "b", "/", "v", "i", "d", "e",
    "o", "/", "7", "?", "l", "a", "n", "g", "=", "e", "n", "#", "t", "o", "p", " ">>
\* "t.co/tag/x"
UrlNoHandle == <<"t", ".", "c", "o", "/", "t", "a", "g", "/", "x">>

\* "Jane Doe (@jd) | TikTok"
TitleJane ==
  <<"J", "a", "n", "e", " ", "D", "o", "e", " ", "(", "@", "j", "d", ")", " ",
    "|", " ", "T", "i", "k", "T", "o", "k">>
\* "mail me: a.b@x.io"
BioMail ==
  <<"m", "a", "i", "l", " ", "m", "e", ":", " ", "a", ".", "b", "@", "x", ".", "i", "o">>
\* "cdn/L.jpg"
ImgL == <<"c", "d", "n", "/", "L", ".", "j", "p", "g">>

\* an embedded state with one well-formed user entry and its stats entry
DocGood ==
  Html(SigiJson(PyDict(<<
         <<"UserModule", PyDict(<<
            <<"users", PyDict(<< <<"jane", PyDict(<<
                 <<"uniqueId", PyStr(<<"j", "a", "n", "e">>)>>,
                 <<"signature", PyStr(BioMail)>> >>)>> >>)>>,
            <<"stats", PyDict(<< <<"jane", PyDict(<<
                 <<"followerCount", PyStr(<<"1", "2", ",", "3", "4", "5">>)>> >>)>> >>)>>
         >>)>> >>)),
       TitleJane, <<>>, ImgL)

\* no embedded state, og: tags only
DocOg == Html(SigiAbsent, TitleJane, BioMail, ImgL)

\* an embedded state whose user entry is a number
DocBadUser ==
  Html(SigiJson(PyDict(<<
         <<"UserModule", PyDict(<< <<"users", PyDict(<< <<"jane", PyInt(7)>> >>)>> >>)>>
       >>)),
       TitleJane, <<>>, <<>>)

\* the bodies a successful attempt returns in the orchestrator runs, and in
\* the runs of a single fetch (where a response may also be empty)
OrchDocs == {DocGood, DocBadUser}
FetchDocs == {DocGood, DocOg, DocBadUser, EmptyHtml}
\* the input lists of the orchestrator runs: the prefixes of two lists, one
\* starting with two different URLs and one with the same URL twice
UrlListA == <<UrlBobVideo, UrlNoHandle, UrlJane, UrlBobVideo>>
UrlListB == <<UrlJane, UrlJane, UrlNoHandle, UrlBobVideo>>
UrlLists(n) ==
  {SubSeq(UrlListA, 1, m) : m \in 0..Min(n, Len(UrlListA))}
    \cup {SubSeq(UrlListB, 1, m) : m \in 0..Min(n, Len(UrlListB))}

----------------------------------------------------------------------------
(* utils_network.fetch_html and runner.scrape_users *)

VARIABLES
  urls,            \* the input list of scrape_users
  max_workers,     \* config["max_workers"]
  retry_attempts,  \* config["retry_attempts"]
  mainpc,          \* where the thread running scrape_users is
  submitted,       \* len(futures)
  unit,            \* the unit of work of each URL, by position: where it
                   \* is (pc), fetch_html's loop variable (attempt), what
                   \* fetch_html returned (html), the future's result or
                   \* exception (out), and the attempts and sleeps of its
                   \* fetch_html call so far (log)
  results,         \* the list scrape_users returns
  order,           \* the positions whose future as_completed has yielded
  bodies,          \* the response bodies the server may answer with
  ex_url, ex_html, ex_pc, ex_out   \* one call of the extraction alone

vars == <<urls, max_workers, retry_attempts, mainpc, submitted, unit, results,
          order, bodies, ex_url, ex_html, ex_pc, ex_out>>

ex_vars == <<ex_url, ex_html, ex_pc, ex_out>>

\* time.sleep(min(2 * attempt, 10))
Backoff(attempt) == Min(2 * attempt, 10)

\* MUTANT of InRange: the loop runs once more, range(1, retries + 2)
InRangeOneMore(k, retries) == 1 <= k /\ k <= retries + 1

\* whether range(1, retries + 1) yields the value k
InRange(k, retries) == 1 <= k /\ k <= retries

FailureKinds == {"transport", "status"}

\* parse_user_from_url (after the fetch) on the URLs and bodies of the runs,
\* evaluated once per input
RunUrls == {UrlListA[j] : j \in 1..Len(UrlListA)} \cup {UrlListB[j] : j \in 1..Len(UrlListB)}
ParsedRuns ==
  {<<x, parse_user_from_url(x[1], x[2])>> : x \in {PyStr(u) : u \in RunUrls} \X FetchDocs}
Parsed(url, html) == (CHOOSE p \in ParsedRuns : p[1] = <<url, html>>)[2]

NewUnit == [pc |-> "new", attempt |-> 0, html |-> EmptyHtml, log |-> <<>>,
            out |-> PyNone]

Units == 1..Len(urls)
Busy == {i \in Units : unit[i].pc \in {"get", "sleep", "parse"}}
Queued == {i \in Units : unit[i].pc = "queued"}
\* MUTANT of Completed: a future that holds an exception is never yielded
CompletedWithResult(i) == unit[i].pc = "done"

\* a future as_completed can yield: it holds a result or an exception
Completed(i) == unit[i].pc \in {"done", "raised"}

InitOrch(U, W, R, B) ==
  /\ bodies = B
  /\ urls \in U
  /\ max_workers \in W
  /\ retry_attempts \in R
  /\ mainpc = "start"
  /\ submitted = 0
  /\ unit = [i \in 1..Len(urls) |-> NewUnit]
  /\ results = <<>>
  /\ order = <<>>

ExOff ==
  /\ ex_url = EmptyStr
  /\ ex_html = EmptyHtml
  /\ ex_pc = "off"
  /\ ex_out = PyNone

Init ==
  /\ InitOrch(UrlLists(MaxUrls), 1..MaxWorkers, 0..MaxRetries, OrchDocs)
  /\ ExOff

\* one fetch_html call at a time, with more retries and more kinds of body
InitFetch ==
  /\ InitOrch(UrlLists(1), {1}, (-1)..MaxFetchRetries, FetchDocs)
  /\ ExOff

\* scrape_users up to the executor: the early return on an empty list
Begin ==
  /\ mainpc = "start"
  /\ mainpc' = IF urls = <<>> THEN "returned" ELSE "submit"
  /\ UNCHANGED <<urls, max_workers, retry_attempts, submitted, unit, results, order>>
  /\ UNCHANGED <<bodies, ex_vars>>

\* executor.submit(parse_user_from_url, url=url, ...); futures.append(future)
Submit ==
  /\ mainpc = "submit"
  /\ submitted' = submitted + 1
  /\ unit' = [unit EXCEPT ![submitted + 1].pc = "queued"]
  /\ mainpc' = IF submitted + 1 = Len(urls) THEN "collect" ELSE "submit"
  /\ UNCHANGED <<urls, max_workers, retry_attempts, results, order>>
  /\ UNCHANGED <<bodies, ex_vars>>

\* A worker thread takes the oldest queued unit and enters fetch_html's loop
Start(i) ==
  /\ i \in Queued
  /\ \A j \in Queued : i <= j
  /\ Cardinality(Busy) < max_workers
  /\ unit' = [unit EXCEPT ![i] =
       IF InRange(1, retry_attempts)
       THEN [@ EXCEPT !.pc = "get", !.attempt = 1]
       ELSE [@ EXCEPT !.pc = "parse", !.html = EmptyHtml]]
  /\ UNCHANGED <<urls, max_workers, retry_attempts, mainpc, submitted, results, order>>
  /\ UNCHANGED <<bodies, ex_vars>>

\* session.get answers with a status below 400: return resp.text
GetOk(i, body) ==
  /\ i \in Units
  /\ unit[i].pc = "get"
  /\ unit' = [unit EXCEPT ![i] =
       [@ EXCEPT !.pc = "parse", !.html = body, !.attempt = 0,
                 !.log = Append(@, [ev |-> "attempt", n |-> unit[i].attempt,
                                    ok |-> TRUE, body |-> body])]]
  /\ UNCHANGED <<urls, max_workers, retry_attempts, mainpc, submitted, results, order>>
  /\ UNCHANGED <<bodies, ex_vars>>

\* session.get raises (kind "transport"), or raise_for_status raises on a
\* status of 400 or more (kind "status"): the same except branch handles
\* both, up to its time.sleep
GetFail(i, kind) ==
  /\ i \in Units
  /\ unit[i].pc = "get"
  /\ unit' = [unit EXCEPT ![i] =
       [@ EXCEPT !.pc = "sleep",
                 !.log = Append(@, [ev |-> "attempt", n |-> unit[i].attempt,
                                    ok |-> FALSE, body |-> EmptyHtml])]]
  /\ UNCHANGED <<urls, max_workers, retry_attempts, mainpc, submitted, results, order>>
  /\ UNCHANGED <<bodies, ex_vars>>

\* time.sleep returns: the next iteration of the loop, or return ""
Wake(i) ==
  /\ i \in Units
  /\ unit[i].pc = "sleep"
  /\ LET slept == Append(unit[i].log, [ev |-> "sleep", n |-> unit[i].attempt,
                                      d |-> Backoff(unit[i].attempt)])
     IN unit' = [unit EXCEPT ![i] =
          IF InRange(unit[i].attempt + 1, retry_attempts)
          THEN [@ EXCEPT !.pc = "get", !.attempt = @ + 1, !.log = slept]
          ELSE [@ EXCEPT !.pc = "parse", !.html = EmptyHtml, !.attempt = 0,
                         !.log = slept]]
  /\ UNCHANGED <<urls, max_workers, retry_attempts, mainpc, submitted, results, order>>
  /\ UNCHANGED <<bodies, ex_vars>>

\* parse_user_from_url after fetch_html: the future gets its result or its
\* exception
Parse(i) ==
  /\ i \in Units
  /\ unit[i].pc = "parse"
  /\ LET out == Parsed(PyStr(urls[i]), unit[i].html)
     IN unit' = [unit EXCEPT ![i] =
          [@ EXCEPT !.pc = IF IsExc(out) THEN "raised" ELSE "done", !.out = out]]
  /\ UNCHANGED <<urls, max_workers, retry_attempts, mainpc, submitted, results, order>>
  /\ UNCHANGED <<bodies, ex_vars>>

\* one iteration of `for future in as_completed(futures)`
Collect(i) ==
  /\ mainpc = "collect"
  /\ i \in Units
  /\ Completed(i)
  /\ \A j \in 1..Len(order) : order[j] # i
  /\ order' = Append(order, i)
  /\ results' =
       IF unit[i].pc = "done" /\ unit[i].out # PyNone
       THEN Append(results, to_dict(unit[i].out))
       ELSE results
  /\ UNCHANGED <<urls, max_workers, retry_attempts, mainpc, submitted, unit>>
  /\ UNCHANGED <<bodies, ex_vars>>

\* as_completed is exhausted, the executor shuts down: return results
Return ==
  /\ mainpc = "collect"
  /\ Len(order) = Len(urls)
  /\ mainpc' = "returned"
  /\ UNCHANGED <<urls, max_workers, retry_attempts, submitted, unit, results, order>>
  /\ UNCHANGED <<bodies, ex_vars>>

MainStep == Begin \/ Submit \/ (\E i \in Units : Collect(i)) \/ Return

UnitStep(i) ==
  \/ Start(i)
  \/ \E body \in bodies : GetOk(i, body)
  \/ \E kind \in FailureKinds : GetFail(i, kind)
  \/ Wake(i)
  \/ Parse(i)

Next == MainStep \/ \E i \in Units : UnitStep(i)

Spec == Init /\ [][Next]_vars

FetchSpec == InitFetch /\ [][Next]_vars

\* the same runs under fair scheduling of the main thread and of the workers
FairSpec ==
  /\ Spec
  /\ WF_vars(MainStep)
  /\ \A i \in 1..MaxUrls : WF_vars(UnitStep(i))

----------------------------------------------------------------------------
(* The inputs of the extraction alone *)

Absent == [t |-> "absent"]

\* the dict of the pairs whose value is not Absent, in order
MkDict(pairs) == PyDict(SelectSeq(pairs, LAMBDA p : p[2] # Absent))

StrL == PyStr(<<"L">>)
StrM == PyStr(<<"M">>)
StrT == PyStr(<<"T">>)
StrJane == PyStr(<<"j", "a", "n", "e">>)
\* "12,345"
Str12345 == PyStr(<<"1", "2", ",", "3", "4", "5">>)
\* "n/a"
StrNA == PyStr(<<"n", "/", "a">>)
\* "Bob | TikTok"
TitleBob == <<"B", "o", "b", " ", "|", " ", "T", "i", "k", "T", "o", "k">>
\* "call 555-123-4567"
BioPhone ==
  <<"c", "a", "l", "l", " ", "5", "5", "5", "-", "1", "2", "3", "-", "4", "5", "6", "7">>

\* the values a count key may hold
CountValues ==
  {PyInt(n) : n \in (-MaxCount)..MaxCount}
    \cup {PyNone, PyInt(7), PyFloat(25, TRUE), PyFloat(-25, TRUE), PyFloat(0, FALSE),
          Str12345, EmptyStr, StrNA, PyBool(TRUE), PyList(<<>>)}
\* the values of the later alternate keys
FewCountValues == {Absent, PyInt(0), PyInt(9)}

\* {"UserModule": {"users": {key: user}, "stats": {key: stats}}}; without the
\* stats module when stats is Absent
UserModuleState(key, user, stats) ==
  PyDict(<< <<"UserModule",
              MkDict(<< <<"users", PyDict(<< <<key, user>> >>)>>,
                        <<"stats", IF stats = Absent THEN Absent
                                   ELSE PyDict(<< <<key, stats>> >>)>> >>)>> >>)

\* {"UserPage": {"userInfo": info}}
UserPageState(info) ==
  PyDict(<< <<"UserPage", PyDict(<< <<"userInfo", info>> >>)>> >>)

JaneEntry == PyDict(<< <<"uniqueId", StrJane>>, <<"id", PyInt(42)>> >>)

\* every combination of the three avatar keys
AvatarStates ==
  {UserModuleState("u1",
     MkDict(<< <<"uniqueId", StrJane>>, <<"avatarThumb", t>>,
               <<"avatarMedium", m>>, <<"avatarLarger", l>> >>), Absent) :
     l \in {Absent, EmptyStr, StrL}, m \in {Absent, EmptyStr, StrM},
     t \in {Absent, EmptyStr, StrT}}

\* stats mappings over the alternate keys of one count field
StatsOver(k1, k2, k3, k4) ==
  {MkDict(<< <<k4, d>>, <<k3, c>>, <<k2, b>>, <<k1, a>> >>) :
     a \in CountValues \cup {Absent}, b \in CountValues \cup {Absent},
     c \in FewCountValues, d \in IF k4 = "-" THEN {Absent} ELSE FewCountValues}

\* followers and videos in the stats module, following and likes in the
\* layout with a "user" and a "stats" object
CountStates ==
  {UserModuleState("u1", JaneEntry, st) :
     st \in StatsOver("followerCount", "fans", "followers", "follower")
              \cup StatsOver("videoCount", "videos", "video", "-")}
  \cup
  {UserPageState(PyDict(<< <<"user", JaneEntry>>, <<"stats", st>> >>)) :
     st \in StatsOver("followingCount", "following", "followings", "-")
              \cup StatsOver("heartCount", "heart", "totalFavorited", "likes")}

\* user entries of every kind: mappings with and without profile fields,
\* and values that are no mapping
UserEntries ==
  {EmptyDict, JaneEntry,
   PyDict(<< <<"nickname", PyStr(<<"N">>)>>, <<"signature", PyStr(BioMail)>>,
             <<"verified", PyBool(TRUE)>>, <<"country", PyStr(<<"F", "R">>)>> >>),
   PyDict(<< <<"signature", PyStr(BioPhone)>>, <<"uid", PyStr(<<"9">>)>>,
             <<"stats", PyDict(<< <<"heart", PyInt(3)>> >>)>> >>),
   PyDict(<< <<"signature", PyInt(123)>> >>),
   PyDict(<< <<"stats", StrNA>> >>),
   PyDict(<< <<"unknown", PyInt(1)>> >>),
   PyDict(<< <<"user", StrNA>>, <<"stats", EmptyDict>> >>),
   PyDict(<< <<"user", JaneEntry>>,
             <<"stats", PyDict(<< <<"fans", Str12345>> >>)>> >>),
   PyInt(7), PyNone, StrNA, EmptyStr, PyList(<<>>), PyList(<<PyInt(1)>>)}

StatsEntries ==
  {Absent, EmptyDict, PyDict(<< <<"followerCount", Str12345>> >>), PyInt(5)}

ShapeStates ==
  {UserModuleState("u1", u, st) : u \in UserEntries, st \in StatsEntries}
  \cup {UserPageState(u) : u \in UserEntries}
  \cup {EmptyDict, PyList(<<PyInt(1)>>), PyInt(5), StrNA, PyNone,
        PyDict(<< <<"UserModule", PyDict(<< <<"users", EmptyDict>> >>)>> >>),
        PyDict(<< <<"UserModule", PyDict(<< <<"users", PyList(<<PyInt(1)>>)>> >>)>>,
                  <<"UserPage", PyDict(<< <<"userInfo", JaneEntry>>,
                                          <<"uniqueId", PyNone>> >>)>> >>),
        \* two user entries: the first one in iteration order is used
        PyDict(<< <<"UserModule", PyDict(<<
                      <<"users", PyDict(<< <<"b", PyDict(<< <<"nickname", StrNA>> >>)>>,
                                           <<"a", JaneEntry>> >>)>>,
                      <<"stats", PyDict(<< <<"a", PyDict(<< <<"fans", PyInt(1)>> >>)>>,
                                           <<"b", PyDict(<< <<"fans", PyInt(2)>> >>)>> >>)>>
                   >>)>> >>)}

\* a user entry with or without a followerCount of its own, and the stats
\* entry stored under the same key
MergeStates ==
  {UserModuleState("u1",
     MkDict(<< <<"uniqueId", StrJane>>, <<"followerCount", c>> >>), st) :
     c \in {Absent, Str12345},
     st \in {Absent, EmptyDict, PyDict(<< <<"followerCount", Str12345>> >>),
             PyDict(<< <<"followerCount", PyInt(9)>> >>),
             PyDict(<< <<"heartCount", PyInt(3)>> >>)}}

\* the og: tags of a document: title, description, image
OgTags == {<<<<>>, <<>>, <<>>>>, <<TitleJane, BioMail, ImgL>>, <<TitleBob, <<>>, <<>>>>}

ExUrls == {UrlJane, UrlBobVideo, UrlNoHandle}

ExInputs ==
  {<<PyStr(u), Html(s, og[1], og[2], og[3])>> :
     u \in ExUrls, og \in OgTags,
     s \in {SigiAbsent, SigiUndecodable} \cup {SigiJson(v) : v \in ShapeStates}}
  \cup {<<PyStr(u), EmptyHtml>> : u \in ExUrls}
  \cup {<<PyStr(UrlJane), Html(SigiJson(v), TitleJane, <<>>, ImgL)>> :
          v \in AvatarStates \cup CountStates \cup MergeStates}

----------------------------------------------------------------------------
(* One call of the extraction of parse_user_from_url *)

OrchOff ==
  /\ urls = <<>>
  /\ max_workers = 1
  /\ retry_attempts = 0
  /\ mainpc = "off"
  /\ submitted = 0
  /\ unit = <<>>
  /\ results = <<>>
  /\ order = <<>>
  /\ bodies = {}

InitExtract ==
  /\ OrchOff
  /\ \E x \in ExInputs : ex_url = x[1] /\ ex_html = x[2]
  /\ ex_pc = "call"
  /\ ex_out = PyNone

\* lines 284-307 of parse_user_from_url on the content ex_html
Extract ==
  /\ ex_pc = "call"
  /\ ex_out' = parse_user_from_url(ex_url, ex_html)
  /\ ex_pc' = IF IsExc(ex_out') THEN "raised" ELSE "returned"
  /\ UNCHANGED <<urls, max_workers, retry_attempts, mainpc, submitted, unit,
                 results, order, bodies, ex_url, ex_html>>

NextExtract == Extract

ExtractSpec == InitExtract /\ [][NextExtract]_vars

----------------------------------------------------------------------------
(* The claims *)

Raised == {i \in Units : unit[i].pc = "raised"}
\* the positions, in collection order, whose future held a result
DoneOrder == SelectSeq(order, LAMBDA i : unit[i].pc = "done")
\* an exhausted fetch: it returned "" after at least one attempt
Exhausted(i) == ~Truthy(unit[i].html) /\ unit[i].log # <<>>

\* C1: when scrape_users returns, every unit has completed or raised, the
\* result list holds exactly N - K records, K the number of units that
\* raised, and every other unit, an exhausted fetch included, has exactly
\* one record in it.
C1_RecordCount ==
  mainpc = "returned" =>
    /\ \A i \in Units : unit[i].pc \in {"done", "raised"}
    /\ Len(results) = Len(urls) - Cardinality(Raised)
    /\ Len(DoneOrder) = Len(results)
    /\ \A i \in Units :
         unit[i].pc = "done" =>
           Cardinality({j \in 1..Len(DoneOrder) : DoneOrder[j] = i}) = 1
    /\ \A i \in Units : ~Truthy(unit[i].html) => unit[i].pc = "done"

\* a run of two URLs that returned one record: one unit raised, the other
\* exhausted its attempts
C1_Witness ==
  /\ mainpc = "returned"
  /\ Len(urls) = 2
  /\ Cardinality(Raised) = 1
  /\ \E i \in Units : unit[i].pc = "done" /\ Exhausted(i)
  /\ Len(results) = 1

\* C2: the extraction never raises: every call returns a record.
C2_ExtractionNeverRaises ==
  ex_pc \in {"returned", "raised"} => ex_pc = "returned" /\ ex_out.t = "user"

Attempts(log) == SelectSeq(log, LAMBDA e : e.ev = "attempt")
FetchReturned(i) == unit[i].pc \in {"parse", "done", "raised"}
MaxAttempts == IF retry_attempts > 0 THEN retry_attempts ELSE 0

\* C3: a fetch_html call makes at most `retries` attempts, numbered 1, 2, ...
\* in order; a successful attempt is the last thing the call does, so every
\* attempt before it failed; the call returns the body of that attempt, or
\* the empty string after exactly max(retries, 0) failed attempts, and then
\* the unit does not fail.
C3_FetchAttempts ==
  \A i \in Units :
    LET log == unit[i].log
        att == Attempts(log)
    IN /\ Len(att) <= MaxAttempts
       /\ \A j \in 1..Len(att) : att[j].n = j
       /\ \A j \in 1..Len(log) :
            (log[j].ev = "attempt" /\ log[j].ok) => (j = Len(log) /\ FetchReturned(i))
       /\ FetchReturned(i) =>
            IF log # <<>> /\ log[Len(log)].ev = "attempt"
            THEN log[Len(log)].ok /\ unit[i].html = log[Len(log)].body
            ELSE /\ unit[i].html = EmptyHtml
                 /\ Len(att) = MaxAttempts
                 /\ unit[i].pc # "raised"

\* a fetch that succeeded at its third attempt
C3_Witness ==
  \E i \in Units :
    /\ unit[i].pc = "done"
    /\ Len(Attempts(unit[i].log)) = 3
    /\ unit[i].log[Len(unit[i].log)].ev = "attempt"
    /\ unit[i].html = DocGood

\* C4: in a fetch_html call that has returned, every backoff wait lasts
\* min(2k, 10) after failed attempt k and is followed by attempt k + 1 (so m
\* failed attempts make m - 1 waits).
C4_BackoffOnlyBeforeRetry ==
  \A i \in Units :
    FetchReturned(i) =>
      \A j \in 1..Len(unit[i].log) :
        unit[i].log[j].ev = "sleep" =>
          /\ unit[i].log[j].d = (IF 2 * unit[i].log[j].n <= 10
                                 THEN 2 * unit[i].log[j].n ELSE 10)
          /\ j < Len(unit[i].log)
          /\ unit[i].log[j + 1].ev = "attempt"
          /\ unit[i].log[j + 1].n = unit[i].log[j].n + 1

ProfileKeys ==
  {"id", "uid", "uniqueId", "nickname", "signature", "avatarLarger",
   "avatarThumb", "avatarMedium", "region", "country", "language",
   "coverImage", "verified", "badgeVerification"}
FollowerKeys == <<"followerCount", "fans", "followers", "follower">>
FollowingKeys == <<"followingCount", "following", "followings">>
LikeKeys == <<"heartCount", "heart", "totalFavorited", "likes">>
VideoKeys == <<"videoCount", "videos", "video">>
CountKeys ==
  {ks[j] : ks \in {FollowerKeys, LikeKeys}, j \in 1..4}
    \cup {ks[j] : ks \in {FollowingKeys, VideoKeys}, j \in 1..3}

\* a user structure without any profile field: an empty shell
EmptyShell(user_data) ==
  /\ IsDict(user_info_of(user_data))
  /\ IsDict(stats_of(user_data))
  /\ \A k \in ProfileKeys : ~HasKey(user_info_of(user_data), k)
  /\ \A k \in CountKeys : ~HasKey(stats_of(user_data), k)

\* the embedded state of the document holds no usable user data
NoUsableEmbeddedData(html) ==
  \/ html.sigi.k # "json"
  \/ LET user_data == _select_primary_user(html.sigi.v)
     IN /\ ~IsExc(user_data)
        /\ ~Truthy(user_data) \/ EmptyShell(user_data)

\* C5: for non-empty content whose embedded state is absent, undecodable,
\* selects no primary user or selects an empty shell, the final record is
\* the Metadata Strategy's record of the same content.
C5_EmptyShellFallsToMetadata ==
  (ex_pc = "returned" /\ Truthy(ex_html) /\ NoUsableEmbeddedData(ex_html)) =>
    ex_out = _parse_from_open_graph(ex_url, ex_html)

\* C6: at every moment of a run, no position has been collected twice, and
\* the records collected so far are, in order, those of the collected
\* positions that hold a result, each with the URL of its position unchanged.
C6_RecordsCarryInputUrl ==
  /\ \A j, k \in 1..Len(order) : order[j] = order[k] => j = k
  /\ \A j \in 1..Len(order) : order[j] \in Units
  /\ Len(results) = Len(DoneOrder)
  /\ \A j \in 1..Len(results) : results[j]["url"] = PyStr(urls[DoneOrder[j]])

\* a run that returned two records for the same URL given twice
C6_Witness ==
  /\ mainpc = "returned"
  /\ Len(urls) = 2
  /\ urls[1] = urls[2]
  /\ Len(results) = 2
  /\ results[1]["url"] = PyStr(urls[1])

\* C7: the four count fields of every record are integers >= 0.
C7_CountsNonNegative ==
  ex_pc = "returned" =>
    \A f \in {"followers", "following", "likes", "videos"} :
      ex_out[f].t = "int" /\ ex_out[f].i >= 0

\* the record is the Embedded-State Strategy's
EmbeddedUsed ==
  /\ ex_pc = "returned"
  /\ Truthy(ex_html)
  /\ _parse_user_from_structured_json(ex_url, ex_html).t = "user"
SelectedUserData == _select_primary_user(_parse_from_sigi_state(ex_html))

\* C8: when each avatar key is absent or holds a non-empty string, the
\* record's avatar is avatarLarger if present, else avatarMedium if present,
\* else avatarThumb if present, else the empty string.
C8_AvatarLargestMediumThumb ==
  EmbeddedUsed =>
    LET ui == user_info_of(SelectedUserData)
        l == Get(ui, "avatarLarger", Absent)
        m == Get(ui, "avatarMedium", Absent)
        th == Get(ui, "avatarThumb", Absent)
    IN (\A v \in {l, m, th} : v = Absent \/ (IsStr(v) /\ Truthy(v))) =>
         ex_out.avatar = (IF l # Absent THEN l ELSE IF m # Absent THEN m
                          ELSE IF th # Absent THEN th ELSE EmptyStr)

\* the value under the first key of keys that is present in stats (a key
\* holding null counts as absent)
RECURSIVE FirstPresent(_, _)
FirstPresent(stats, keys) ==
  IF keys = <<>> THEN PyNone
  ELSE IF HasKey(stats, keys[1]) /\ Get(stats, keys[1], PyNone) # PyNone
  THEN Get(stats, keys[1], PyNone)
  ELSE FirstPresent(stats, Tail(keys))

\* the value under the first key of keys whose value in stats is truthy
RECURSIVE FirstTruthy(_, _)
FirstTruthy(stats, keys) ==
  IF keys = <<>> THEN PyNone
  ELSE IF HasKey(stats, keys[1]) /\ Truthy(Get(stats, keys[1], PyNone))
  THEN Get(stats, keys[1], PyNone)
  ELSE FirstTruthy(stats, Tail(keys))

\* C9 as stated: each count field is the coercion of the value under the
\* first key of its list that is present, whatever that value is (0 and the
\* empty string included).
C9_FirstPresentKeyWins ==
  EmbeddedUsed =>
    LET stats == stats_of(SelectedUserData)
    IN /\ ex_out.followers = PyInt(_safe_int(FirstPresent(stats, FollowerKeys), 0))
       /\ ex_out.following = PyInt(_safe_int(FirstPresent(stats, FollowingKeys), 0))
       /\ ex_out.likes = PyInt(_safe_int(FirstPresent(stats, LikeKeys), 0))
       /\ ex_out.videos = PyInt(_safe_int(FirstPresent(stats, VideoKeys), 0))

\* C9 as amended: each count field is the coercion of the value under the
\* first key of its list whose value is truthy (a key holding null, 0, 0.0,
\* false, an empty string or an empty container is passed over like an
\* absent one), and 0 when no key of the list holds a truthy value.
C9_FirstTruthyKeyWins ==
  EmbeddedUsed =>
    LET stats == stats_of(SelectedUserData)
    IN /\ ex_out.followers = PyInt(_safe_int(FirstTruthy(stats, FollowerKeys), 0))
       /\ ex_out.following = PyInt(_safe_int(FirstTruthy(stats, FollowingKeys), 0))
       /\ ex_out.likes = PyInt(_safe_int(FirstTruthy(stats, LikeKeys), 0))
       /\ ex_out.videos = PyInt(_safe_int(FirstTruthy(stats, VideoKeys), 0))

\* followerCount is present and 0, fans holds "12,345": followers is 12345
C9_Witness ==
  /\ EmbeddedUsed
  /\ Get(stats_of(SelectedUserData), "followerCount", Absent) = PyInt(0)
  /\ Get(stats_of(SelectedUserData), "fans", Absent) = Str12345
  /\ ex_out.followers = PyInt(12345)

\* C10: under fair scheduling scrape_users eventually returns, and it has
\* returned only when every unit of work has completed or raised.
C10_ReturnsAfterAllUnits ==
  /\ <>(mainpc = "returned")
  /\ [](mainpc = "returned" => \A i \in Units : unit[i].pc \in {"done", "raised"})

\* a run that returned although one unit raised and another exhausted its
\* attempts
C10_Witness ==
  /\ mainpc = "returned"
  /\ \E i \in Units : unit[i].pc = "raised"
  /\ \E i \in Units : unit[i].pc = "done" /\ Exhausted(i) /\ retry_attempts = MaxRetries

----------------------------------------------------------------------------
(* C11: the first user entry and its stats entry *)

\* the users mapping of the embedded state, its first entry and the stats
\* entry stored under the key of that entry
FirstUserKey ==
  FirstKey(_deep_get(_parse_from_sigi_state(ex_html), <<"UserModule", "users">>,
                     EmptyDict))
FirstUserEntry ==
  _deep_get(_parse_from_sigi_state(ex_html), <<"UserModule", "users">>,
            EmptyDict).d[1][2]
MatchingStatsEntry ==
  _deep_get(_parse_from_sigi_state(ex_html),
            <<"UserModule", "stats", FirstUserKey>>, Absent)

\* the content has a non-empty users mapping whose first entry carries a
\* uniqueId and a followerCount that is a string with digits, and a stats
\* entry is stored under the key of that entry
FirstEntryWithCount ==
  /\ ex_pc # "call"
  /\ Truthy(ex_html)
  /\ LET users == _deep_get(_parse_from_sigi_state(ex_html),
                            <<"UserModule", "users">>, EmptyDict)
     IN IsDict(users) /\ Truthy(users)
  /\ IsDict(FirstUserEntry)
  /\ IsStr(Get(FirstUserEntry, "uniqueId", PyNone))
  /\ Truthy(Get(FirstUserEntry, "uniqueId", PyNone))
  /\ IsStr(Get(FirstUserEntry, "followerCount", PyNone))
  /\ OnlyDigits(Get(FirstUserEntry, "followerCount", PyNone).s) # <<>>
  /\ IsDict(MatchingStatsEntry)

\* C11: when the first entry of UserModule.users carries uniqueId = u and
\* followerCount = c, a string with digits and formatting characters, and a
\* stats entry is stored under the same key, the record has username = u and
\* followers = the integer formed by the digits of c.
C11_FirstEntryMergedWithStats ==
  FirstEntryWithCount =>
    /\ ex_pc = "returned"
    /\ ex_out.username = Get(FirstUserEntry, "uniqueId", PyNone)
    /\ ex_out.followers =
         PyInt(DecVal(OnlyDigits(Get(FirstUserEntry, "followerCount", PyNone).s)))

----------------------------------------------------------------------------
(* C12: the Metadata Strategy and the Minimal record *)

\* the content is non-empty, the Embedded-State Strategy yields nothing and
\* none of og:title, og:description and og:image is present
NothingButTheUrl ==
  /\ ex_pc # "call"
  /\ Truthy(ex_html)
  /\ _parse_user_from_structured_json(ex_url, ex_html) = PyNone
  /\ ex_html.title = <<>>
  /\ ex_html.description = <<>>
  /\ ex_html.image = <<>>

\* url and the username of the URL path, every other field at the default
\* of the TikTokUser dataclass
UrlOnlyRecord ==
  [t |-> "user", id |-> EmptyStr, url |-> ex_url,
   username |-> PyStr(_extract_username_from_url(ex_url.s)),
   nickname |-> EmptyStr, bio |-> EmptyStr, followers |-> PyInt(0),
   following |-> PyInt(0), likes |-> PyInt(0), videos |-> PyInt(0),
   verified |-> PyBool(FALSE), avatar |-> EmptyStr, region |-> EmptyStr,
   language |-> EmptyStr, hasEmail |-> PyBool(FALSE), hasPhone |-> PyBool(FALSE),
   coverImage |-> EmptyStr, extra |-> EmptyDict]

\* C12: for non-empty content _parse_from_open_graph returns a record, so
\* parse_user_from_url never ends at its final Minimal return; and when the
\* Embedded-State Strategy yields nothing and the content has no og:title,
\* og:description or og:image, the record returned equals, field for field,
\* the Minimal record of empty content: url = the input URL, username
\* derived from the URL path, every other field at its default.
C12_MetadataRecordEqualsMinimal ==
  (ex_pc # "call" /\ Truthy(ex_html)) =>
    /\ _parse_from_open_graph(ex_url, ex_html).t = "user"
    /\ return_site(ex_url, ex_html) # "minimal_fallback"
    /\ NothingButTheUrl =>
         /\ ex_pc = "returned"
         /\ return_site(ex_url, ex_html) = "open_graph"
         /\ ex_out = parse_user_from_url(ex_url, EmptyHtml)
         /\ to_dict(ex_out) = to_dict(parse_user_from_url(ex_url, EmptyHtml))
         /\ ex_out = UrlOnlyRecord

\* a document with an embedded state that selects no user and without og:
\* tags, for a URL with a handle, has been extracted
C12_Witness ==
  /\ NothingButTheUrl
  /\ ex_pc = "returned"
  /\ ex_html.sigi.k = "json"
  /\ ex_out.username # EmptyStr
  /\ ex_out = UrlOnlyRecord

====
